---- MODULE Spec2Model ----
(***************************************************************************)
(* Lifecycle orchestration core of the Slidev API server:                  *)
(*   PortManager          (port-manager, appended to routes.ts)            *)
(*   PresentationManager  (presentation-manager.ts)                        *)
(*   ProjectGenerator     (project-generator.ts, directory create/remove)  *)
(*                        and installDependenciesWithRetry                *)
(*   DockerManager        (docker-manager.ts, createPresentation)          *)
(*   POST /presentations, POST /presentations/:id/extend (routes.ts)       *)
(*   validation middlewares (validation.ts), errorHandler                  *)
(*   HealthMonitor        (health.ts)                                      *)
(*   SIGTERM / SIGINT listeners (server.ts, error-handler.ts)              *)
(*                                                                         *)
(* Node runs one handler segment at a time: every action below is the code *)
(* between two suspension points (await) of one async call.                *)
(***************************************************************************)
EXTENDS Integers, Sequences, FiniteSets, TLC

\* ---------------------------------------------------------------- bounds
NumAttempts == 2
NumCallers == 3
MaxPoolSize == 21
NumPorts == 2
NumInstallers == 2
NumDockerCalls == 2
MaxTime == 1
MaxTTL == 2

\* ------------------------------------------------------ program constants
\* config.portRange.start (default of PORT_RANGE_START)
StartPort == 3002

EndPort == StartPort + NumPorts - 1

Attempts == 1..NumAttempts
Callers == 1..NumCallers
Installers == 1..NumInstallers
DockerCalls == 1..NumDockerCalls
PortRange == StartPort..EndPort
\* ttl values a client sends that the schemas accept: the maximum and the
\* value one unit below it.
TTLs == (MaxTTL - 1)..MaxTTL
\* ttl values a client may send to the extend route: below the minimum, the
\* accepted values, above the maximum.
TtlInputs == {0, MaxTTL + 1} \cup TTLs
\* Lengths of a request's content, before and after trim(): empty, one below
\* the minimum of validatePresentationRequest, the minimum.
ContentLens == {0, 9, 10}
Contents == {c \in [raw : ContentLens, trimmed : ContentLens] : c.trimmed <= c.raw}
\* memoryUsage.percentage and diskUsage.percentage as getMemoryUsage and
\* getDiskUsage report them: at the threshold, above it.
MemoryPcts == {90, 91}
DiskPcts == {95, 96}
\* Sizes of the port range a PortManager may be constructed with.
PoolSizes == 1..MaxPoolSize
NoPort == 0
NoTime == 0 - 1
DelCtx == {"req", "sweep"}
\* Ceilings the server is configured with: one below and one above the number
\* of ports.
Ceilings == {1, NumPorts + 1}
\* What get-port-please may hand back to a direct caller of allocatePort: any
\* port around the range, or NoPort when it throws.
ProbeResults == {NoPort} \cup ((StartPort - 1)..(EndPort + 1))

VARIABLES
  maxConcurrentPresentations, \* config.maxConcurrentPresentations
  now,                        \* Date.now()
  allocatedPorts,             \* PortManager.allocatedPorts
  instances,                  \* PresentationManager.instances (Map, insertion order)
  cpc,                        \* position of each createPresentation call
  excludePorts,               \* allocatePort: excludePorts snapshot of the call
  port,                       \* port of the attempt / instance.port
  expiresAt,                  \* instance.expiresAt
  createdAt,                  \* instance.createdAt
  server,                     \* the attempt's child process: none, alive, dead
  killed,                     \* ChildProcess.killed of the attempt's process
  projectDir,                 \* does the attempt's project directory exist
  outcome,                    \* what the createPresentation call returned
  del,                        \* the deletePresentation call of each caller
  sweeping,                   \* is a cleanupExpired run in progress
  expiredIds,                 \* cleanupExpired: ids still to delete
  cleanedCount,               \* cleanupExpired: cleanedCount
  collected,                  \* all ids the latest cleanupExpired run collected
  pmCall,                     \* direct callers of PortManager.allocatePort
  deleted,                    \* DELETE route: what deletePresentation returned
  exited,                     \* has the server process exited (process.exit)
  extendRejected,             \* extend route: error code of the latest rejection
  posted,                     \* POST /presentations: latest request and its answer
  healthCheck,                \* the latest getHealthStatus call and its result
  templateValid,              \* is the Slidev CLI installed under _template
  install,                    \* the installDependenciesWithRetry calls
  docker                      \* DockerManager: its createPresentation calls

vars == <<maxConcurrentPresentations, now, allocatedPorts, instances, cpc,
          excludePorts, port, expiresAt, createdAt, server, killed,
          projectDir, outcome, del, sweeping, expiredIds, cleanedCount,
          collected, pmCall, deleted, exited, extendRejected, posted,
          healthCheck, templateValid, install, docker>>

\* ---------------------------------------------------------------- helpers
SeqRange(s) == {s[k] : k \in 1..Len(s)}

InMap(id) == id \in SeqRange(instances)

MapDelete(m, id) == SelectSeq(m, LAMBDA x : x # id)

MinOf(S) == CHOOSE x \in S : \A y \in S : x <= y

\* Ports on which a started Slidev server of ours is listening.
BoundPorts == {port[a] : a \in {b \in Attempts : server[b] = "alive" /\ cpc[b] \in {"wait", "ok"}}}

\* get-port-please with random:false: first port of the range that is neither
\* excluded nor in use; NoPort stands for "nothing in the range" (the library
\* then falls back to a port outside the range or throws).
GetPort(exclude) ==
  LET cand == PortRange \ (exclude \cup BoundPorts)
  IN IF cand = {} THEN NoPort ELSE MinOf(cand)

\* ChildProcess.kill(sig): signals a live process and sets .killed; a process
\* that has already exited has no handle, kill returns false.
Kill(srv, k, sig, ignoresTerm) ==
  IF srv = "alive"
  THEN [server |-> IF sig = "SIGTERM" /\ ignoresTerm THEN "alive" ELSE "dead",
        killed |-> TRUE]
  ELSE [server |-> srv, killed |-> k]

IdleDel == [pc |-> "idle", tgt |-> 0]

IdleCall == [pc |-> "idle", exclude |-> {}, got |-> NoPort]

\* No installDependenciesWithRetry call has been made by this caller.
IdleInstall == [pc |-> "idle", attempt |-> 0, maxRetries |-> 0, commands |-> <<>>]

\* No DockerManager.createPresentation call has been made by this caller.
\* error is the error the catch block is handling, threw tells whether the
\* call has thrown.
IdleDocker == [pc |-> "idle", exclude |-> {}, port |-> NoPort, dir |-> FALSE,
               container |-> "none", status |-> "none", inMap |-> FALSE,
               error |-> "none", threw |-> FALSE]

\* ------------------------------------------------------------------ Init
\* No getHealthStatus call has been made.
NoCheck == [memory |-> 0, disk |-> 0, threw |-> FALSE, allocated |-> 0,
            total |-> 0, status |-> "none", availablePorts |-> 0]

\* No POST /presentations request has been received.
NoPost == [raw |-> 0, trimmed |-> 0, status |-> 0, code |-> "none"]

\* The state the constructors leave, but for the template.
Constructed ==
  /\ maxConcurrentPresentations \in Ceilings
  /\ now = 0
  /\ allocatedPorts = {}
  /\ instances = <<>>
  /\ cpc = [a \in Attempts |-> "idle"]
  /\ excludePorts = [a \in Attempts |-> {}]
  /\ port = [a \in Attempts |-> NoPort]
  /\ expiresAt = [a \in Attempts |-> NoTime]
  /\ createdAt = [a \in Attempts |-> NoTime]
  /\ server = [a \in Attempts |-> "none"]
  /\ killed = [a \in Attempts |-> FALSE]
  /\ projectDir = [a \in Attempts |-> FALSE]
  /\ outcome = [a \in Attempts |-> "none"]
  /\ del = [d \in DelCtx |-> IdleDel]
  /\ sweeping = FALSE
  /\ expiredIds = <<>>
  /\ cleanedCount = 0
  /\ collected = {}
  /\ pmCall = [k \in Callers |-> IdleCall]
  /\ deleted = "none"
  /\ exited = FALSE
  /\ extendRejected = "none"
  /\ posted = NoPost
  /\ healthCheck = NoCheck
  /\ install = [i \in Installers |-> IdleInstall]
  /\ docker = [c \in DockerCalls |-> IdleDocker]

\* The server starts with the template of an earlier run in place:
\* initializeTemplate finds it valid and returns (lines 25-28).
Init == Constructed /\ templateValid = TRUE

\* ------------------------------------------------------ createPresentation
\* Lines 20-34: ceiling check, then the call suspends in createProjectWithoutDeps.
CeilingReached == Len(instances) >= maxConcurrentPresentations

CreateStart_Serialised(a) ==
  /\ ~exited
  /\ cpc[a] = "idle"
  /\ \A b \in Attempts : b < a => cpc[b] # "idle"
  /\ \A b \in Attempts : cpc[b] \in {"idle", "ok", "failed"}
  /\ IF CeilingReached
     THEN /\ cpc' = [cpc EXCEPT ![a] = "failed"]
          /\ outcome' = [outcome EXCEPT ![a] = "ceiling"]
     ELSE /\ cpc' = [cpc EXCEPT ![a] = "scaffold"]
          /\ outcome' = outcome
  /\ UNCHANGED <<pmCall, deleted, exited, extendRejected, posted, healthCheck, templateValid, install, docker>>
  /\ UNCHANGED <<maxConcurrentPresentations, now, allocatedPorts, instances,
                 excludePorts, port, expiresAt, createdAt, server, killed,
                 projectDir, del, sweeping, expiredIds, cleanedCount, collected>>

CreateStart(a) ==
  /\ ~exited
  /\ cpc[a] = "idle"
  /\ \A b \in Attempts : b < a => cpc[b] # "idle"
  /\ IF CeilingReached
     THEN /\ cpc' = [cpc EXCEPT ![a] = "failed"]
          /\ outcome' = [outcome EXCEPT ![a] = "ceiling"]
     ELSE /\ cpc' = [cpc EXCEPT ![a] = "scaffold"]
          /\ outcome' = outcome
  /\ UNCHANGED <<pmCall, deleted, exited, extendRejected, posted, healthCheck, templateValid, install, docker>>
  /\ UNCHANGED <<maxConcurrentPresentations, now, allocatedPorts, instances,
                 excludePorts, port, expiresAt, createdAt, server, killed,
                 projectDir, del, sweeping, expiredIds, cleanedCount, collected>>

\* createProjectWithoutDeps returned; allocatePort runs up to `await getPort`.
ScaffoldDone(a) ==
  /\ ~exited
  /\ cpc[a] = "scaffold"
  /\ projectDir' = [projectDir EXCEPT ![a] = TRUE]
  /\ excludePorts' = [excludePorts EXCEPT ![a] = allocatedPorts]
  /\ cpc' = [cpc EXCEPT ![a] = "alloc"]
  /\ UNCHANGED <<pmCall, deleted, exited, extendRejected, posted, healthCheck, templateValid, install, docker>>
  /\ UNCHANGED <<maxConcurrentPresentations, now, allocatedPorts, instances,
                 port, expiresAt, createdAt, server, killed, outcome, del,
                 sweeping, expiredIds, cleanedCount, collected>>

\* createProjectWithoutDeps threw: its catch removes the directory (the
\* removal itself may fail, which is only logged) and rethrows.
ScaffoldFail(a) ==
  /\ ~exited
  /\ cpc[a] = "scaffold"
  /\ \E removed \in BOOLEAN :
       projectDir' = [projectDir EXCEPT ![a] = ~removed]
  /\ cpc' = [cpc EXCEPT ![a] = "failed"]
  /\ outcome' = [outcome EXCEPT ![a] = "scaffold"]
  /\ UNCHANGED <<pmCall, deleted, exited, extendRejected, posted, healthCheck, templateValid, install, docker>>
  /\ UNCHANGED <<maxConcurrentPresentations, now, allocatedPorts, instances,
                 excludePorts, port, expiresAt, createdAt, server, killed,
                 del, sweeping, expiredIds, cleanedCount, collected>>

OutOfRange_Never(p) == FALSE

\* PortManager.allocatePort, after `await getPort`: the range check.
OutOfRange(p) == p < StartPort \/ p > EndPort

PortConflict_Skipped(p) == FALSE

\* PortManager.allocatePort: the final check against the allocated set.
PortConflict(p) == p \in allocatedPorts

ReleasePort_Clears(alloc, p) == IF p \in alloc THEN alloc \ {p} ELSE {}

\* PortManager.releasePort
ReleasePort(alloc, p) == IF p \in alloc THEN alloc \ {p} ELSE alloc

\* getPort resolved: allocatePort either throws (every throw is rethrown as
\* "No available ports in the configured range", and createPresentation's
\* outer catch only rethrows) or records the port; createPresentation then
\* computes expiresAt and spawns the Slidev process.
AllocResume(a) ==
  /\ ~exited
  /\ cpc[a] = "alloc"
  /\ LET p == GetPort(excludePorts[a])
     IN IF OutOfRange(p) \/ PortConflict(p)
        THEN /\ cpc' = [cpc EXCEPT ![a] = "failed"]
             /\ outcome' = [outcome EXCEPT ![a] = "noport"]
             /\ UNCHANGED <<allocatedPorts, port, expiresAt, server>>
        ELSE /\ allocatedPorts' = allocatedPorts \cup {p}
             /\ port' = [port EXCEPT ![a] = p]
             /\ \E ttl \in TTLs : expiresAt' = [expiresAt EXCEPT ![a] = now + ttl]
             /\ server' = [server EXCEPT ![a] = "alive"]
             /\ cpc' = [cpc EXCEPT ![a] = "spawn"]
             /\ outcome' = outcome
  /\ excludePorts' = [excludePorts EXCEPT ![a] = {}]
  /\ UNCHANGED <<pmCall, deleted, exited, extendRejected, posted, healthCheck, templateValid, install, docker>>
  /\ UNCHANGED <<maxConcurrentPresentations, now, instances, createdAt, killed,
                 projectDir, del, sweeping, expiredIds, cleanedCount, collected>>

RollbackKill_Skipped(a, assigned) == [server |-> server[a], killed |-> killed[a]]

\* createPresentation catch, lines 56-59: kill the process if the variable
\* slidevProcess was assigned (startSlidevProcess had resolved).
RollbackKill(a, assigned) ==
  IF assigned /\ ~killed[a]
  THEN Kill(server[a], killed[a], "SIGKILL", FALSE)
  ELSE [server |-> server[a], killed |-> killed[a]]

Rollback_KeepsPort(a, assigned) ==
  LET k == RollbackKill(a, assigned)
  IN /\ server' = [server EXCEPT ![a] = k.server]
     /\ killed' = [killed EXCEPT ![a] = k.killed]
     /\ allocatedPorts' = allocatedPorts
     /\ cpc' = [cpc EXCEPT ![a] = "rollback"]

\* createPresentation catch, lines 52-65, up to `await cleanupProject`.
Rollback(a, assigned) ==
  LET k == RollbackKill(a, assigned)
  IN /\ server' = [server EXCEPT ![a] = k.server]
     /\ killed' = [killed EXCEPT ![a] = k.killed]
     /\ allocatedPorts' = ReleasePort(allocatedPorts, port[a])
     /\ cpc' = [cpc EXCEPT ![a] = "rollback"]

StartReady_Registers(a) ==
  /\ ~exited
  /\ cpc[a] = "spawn"
  /\ server[a] = "alive"
  /\ templateValid
  /\ createdAt' = [createdAt EXCEPT ![a] = now]
  /\ instances' = Append(instances, a)
  /\ cpc' = [cpc EXCEPT ![a] = "ok"]
  /\ outcome' = [outcome EXCEPT ![a] = "ok"]
  /\ UNCHANGED <<pmCall, deleted, exited, extendRejected, posted, healthCheck, templateValid, install, docker>>
  /\ UNCHANGED <<maxConcurrentPresentations, now, allocatedPorts, excludePorts,
                 port, expiresAt, server, killed, projectDir, del, sweeping,
                 expiredIds, cleanedCount, collected>>

\* startSlidevProcess: the readiness marker appeared on stdout; the promise
\* resolves and createPresentation goes on to waitForServerReady. The process
\* is `node <tempDir>/_template/node_modules/@slidev/cli/bin/slidev.mjs`
\* (lines 281-284): only an installed CLI prints the marker.
StartReady(a) ==
  /\ ~exited
  /\ cpc[a] = "spawn"
  /\ server[a] = "alive"
  /\ templateValid
  /\ cpc' = [cpc EXCEPT ![a] = "wait"]
  /\ UNCHANGED <<pmCall, deleted, exited, extendRejected, posted, healthCheck, templateValid, install, docker>>
  /\ UNCHANGED <<maxConcurrentPresentations, now, allocatedPorts, instances,
                 excludePorts, port, expiresAt, createdAt, server, killed,
                 projectDir, outcome, del, sweeping, expiredIds, cleanedCount,
                 collected>>

\* startSlidevProcess: 'error' event or 'exit' with a nonzero code before the
\* marker: the promise rejects; slidevProcess was never assigned.
StartReject(a) ==
  /\ ~exited
  /\ cpc[a] = "spawn"
  /\ server[a] = "alive"
  /\ LET k == RollbackKill(a, FALSE)
     IN /\ server' = [server EXCEPT ![a] = "dead"]
        /\ killed' = [killed EXCEPT ![a] = k.killed]
        /\ allocatedPorts' = ReleasePort(allocatedPorts, port[a])
        /\ cpc' = [cpc EXCEPT ![a] = "rollback"]
  /\ UNCHANGED <<pmCall, deleted, exited, extendRejected, posted, healthCheck, templateValid, install, docker>>
  /\ UNCHANGED <<maxConcurrentPresentations, now, instances, excludePorts,
                 port, expiresAt, createdAt, projectDir, outcome, del,
                 sweeping, expiredIds, cleanedCount, collected>>

\* startSlidevProcess: 'exit' with code 0 before the marker: the exit handler
\* does nothing, the call keeps waiting for the 180 s timer. (node exits with
\* code 1 when the CLI script is missing.)
StartExitZero(a) ==
  /\ ~exited
  /\ cpc[a] = "spawn"
  /\ server[a] = "alive"
  /\ templateValid
  /\ server' = [server EXCEPT ![a] = "dead"]
  /\ UNCHANGED <<pmCall, deleted, exited, extendRejected, posted, healthCheck, templateValid, install, docker>>
  /\ UNCHANGED <<maxConcurrentPresentations, now, allocatedPorts, instances,
                 cpc, excludePorts, port, expiresAt, createdAt, killed,
                 projectDir, outcome, del, sweeping, expiredIds, cleanedCount,
                 collected>>

StartTimeout_Resolves(a) ==
  /\ ~exited
  /\ cpc[a] = "spawn"
  /\ server[a] = "alive"
  /\ killed' = [killed EXCEPT ![a] = TRUE]
  /\ cpc' = [cpc EXCEPT ![a] = "wait"]
  /\ UNCHANGED <<pmCall, deleted, exited, extendRejected, posted, healthCheck, templateValid, install, docker>>
  /\ UNCHANGED <<maxConcurrentPresentations, now, allocatedPorts, instances,
                 excludePorts, port, expiresAt, createdAt, server, projectDir,
                 outcome, del, sweeping, expiredIds, cleanedCount, collected>>

\* startSlidevProcess: the 180 s timer fires first: SIGKILL, reject; then the
\* catch of createPresentation (slidevProcess is still null there).
StartTimeout(a) ==
  /\ ~exited
  /\ cpc[a] = "spawn"
  /\ LET t == Kill(server[a], killed[a], "SIGKILL", FALSE)
     IN /\ server' = [server EXCEPT ![a] = t.server]
        /\ killed' = [killed EXCEPT ![a] = t.killed]
        /\ allocatedPorts' = ReleasePort(allocatedPorts, port[a])
        /\ cpc' = [cpc EXCEPT ![a] = "rollback"]
  /\ UNCHANGED <<pmCall, deleted, exited, extendRejected, posted, healthCheck, templateValid, install, docker>>
  /\ UNCHANGED <<maxConcurrentPresentations, now, instances, excludePorts,
                 port, expiresAt, createdAt, projectDir, outcome, del,
                 sweeping, expiredIds, cleanedCount, collected>>

\* waitForServerReady got an ok response: the instance record is created and
\* put in the map (lines 70-82).
WaitReady(a) ==
  /\ ~exited
  /\ cpc[a] = "wait"
  /\ server[a] = "alive"
  /\ createdAt' = [createdAt EXCEPT ![a] = now]
  /\ instances' = Append(instances, a)
  /\ cpc' = [cpc EXCEPT ![a] = "ok"]
  /\ outcome' = [outcome EXCEPT ![a] = "ok"]
  /\ UNCHANGED <<pmCall, deleted, exited, extendRejected, posted, healthCheck, templateValid, install, docker>>
  /\ UNCHANGED <<maxConcurrentPresentations, now, allocatedPorts, excludePorts,
                 port, expiresAt, server, killed, projectDir, del, sweeping,
                 expiredIds, cleanedCount, collected>>

WaitFail_Never(a) == FALSE

\* waitForServerReady used up its 60 attempts and threw.
WaitFail(a) ==
  /\ ~exited
  /\ cpc[a] = "wait"
  /\ Rollback(a, TRUE)
  /\ UNCHANGED <<pmCall, deleted, exited, extendRejected, posted, healthCheck, templateValid, install, docker>>
  /\ UNCHANGED <<maxConcurrentPresentations, now, instances, excludePorts,
                 port, expiresAt, createdAt, projectDir, outcome, del,
                 sweeping, expiredIds, cleanedCount, collected>>

\* The catch's cleanupProject removed the directory; the original error is
\* rethrown.
RollbackCleanupDone(a) ==
  /\ ~exited
  /\ cpc[a] = "rollback"
  /\ projectDir' = [projectDir EXCEPT ![a] = FALSE]
  /\ cpc' = [cpc EXCEPT ![a] = "failed"]
  /\ outcome' = [outcome EXCEPT ![a] = "startup"]
  /\ UNCHANGED <<pmCall, deleted, exited, extendRejected, posted, healthCheck, templateValid, install, docker>>
  /\ UNCHANGED <<maxConcurrentPresentations, now, allocatedPorts, instances,
                 excludePorts, port, expiresAt, createdAt, server, killed,
                 del, sweeping, expiredIds, cleanedCount, collected>>

\* The catch's cleanupProject threw (fs.remove failed): that error leaves
\* createPresentation instead of the original one.
RollbackCleanupFail(a) ==
  /\ ~exited
  /\ cpc[a] = "rollback"
  /\ cpc' = [cpc EXCEPT ![a] = "failed"]
  /\ outcome' = [outcome EXCEPT ![a] = "cleanup"]
  /\ UNCHANGED <<pmCall, deleted, exited, extendRejected, posted, healthCheck, templateValid, install, docker>>
  /\ UNCHANGED <<maxConcurrentPresentations, now, allocatedPorts, instances,
                 excludePorts, port, expiresAt, createdAt, server, killed,
                 projectDir, del, sweeping, expiredIds, cleanedCount, collected>>

\* The child process of an attempt past startSlidevProcess exits on its own;
\* no handler reacts once the promise is resolved.
ProcExit(a) ==
  /\ cpc[a] \in {"wait", "ok"}
  /\ server[a] = "alive"
  /\ server' = [server EXCEPT ![a] = "dead"]
  /\ UNCHANGED <<pmCall, deleted, exited, extendRejected, posted, healthCheck, templateValid, install, docker>>
  /\ UNCHANGED <<maxConcurrentPresentations, now, allocatedPorts, instances,
                 cpc, excludePorts, port, expiresAt, createdAt, killed,
                 projectDir, outcome, del, sweeping, expiredIds, cleanedCount,
                 collected>>

\* ------------------------------------------------------ deletePresentation
DeleteRelease_Skipped(id) == allocatedPorts

\* Lines 153-154: releasePort(instance.port), which runs before cleanupProject.
DeleteRelease(id) == ReleasePort(allocatedPorts, port[id])

DelBegin_NoLookup(id, ignoresTerm) ==
  [del |-> [pc |-> "cleanup", tgt |-> id], server |-> server,
   killed |-> killed, alloc |-> DeleteRelease(id)]

\* deletePresentation from its first line to its first await: lines 131-135
\* for an unknown id (returns false), lines 131-145 when the process is
\* signalled, lines 131-157 when .killed is already set.
DelBegin(id, ignoresTerm) ==
  IF ~InMap(id)
  THEN [del |-> IdleDel, server |-> server, killed |-> killed,
        alloc |-> allocatedPorts]
  ELSE IF ~killed[id]
       THEN LET k == Kill(server[id], killed[id], "SIGTERM", ignoresTerm)
            IN [del |-> [pc |-> "grace", tgt |-> id],
                server |-> [server EXCEPT ![id] = k.server],
                killed |-> [killed EXCEPT ![id] = k.killed],
                alloc |-> allocatedPorts]
       ELSE [del |-> [pc |-> "cleanup", tgt |-> id],
             server |-> server, killed |-> killed, alloc |-> DeleteRelease(id)]

\* DELETE /presentations/:id calls deletePresentation(id).
DeleteRequest(id) ==
  /\ ~exited
  /\ del["req"].pc = "idle"
  /\ \E ignoresTerm \in BOOLEAN :
       LET b == DelBegin(id, ignoresTerm)
       IN /\ del' = [del EXCEPT !["req"] = b.del]
          /\ server' = b.server
          /\ killed' = b.killed
          /\ allocatedPorts' = b.alloc
          /\ deleted' = IF b.del = IdleDel THEN "false" ELSE "none"
  /\ UNCHANGED <<pmCall, exited, extendRejected, posted, healthCheck, templateValid, install, docker>>
  /\ UNCHANGED <<maxConcurrentPresentations, now, instances, cpc, excludePorts,
                 port, expiresAt, createdAt, projectDir, outcome, sweeping,
                 expiredIds, cleanedCount, collected>>

\* Lines 147-157: the 1 s grace timer fired; SIGKILL only if .killed is still
\* false; releasePort; then the call suspends in cleanupProject.
DeleteGrace(d) ==
  /\ ~exited
  /\ del[d].pc = "grace"
  /\ LET id == del[d].tgt
         k == IF ~killed[id]
              THEN Kill(server[id], killed[id], "SIGKILL", FALSE)
              ELSE [server |-> server[id], killed |-> killed[id]]
     IN /\ server' = [server EXCEPT ![id] = k.server]
        /\ killed' = [killed EXCEPT ![id] = k.killed]
        /\ allocatedPorts' = DeleteRelease(id)
        /\ del' = [del EXCEPT ![d].pc = "cleanup"]
  /\ UNCHANGED <<pmCall, deleted, exited, extendRejected, posted, healthCheck, templateValid, install, docker>>
  /\ UNCHANGED <<maxConcurrentPresentations, now, instances, cpc, excludePorts,
                 port, expiresAt, createdAt, projectDir, outcome, sweeping,
                 expiredIds, cleanedCount, collected>>

\* ---------------------------------------------------------- cleanupExpired
RECURSIVE SkipGone(_)
\* deletePresentation returns false at once for an id no longer in the map.
SkipGone(l) ==
  IF l = <<>> \/ InMap(Head(l)) THEN l ELSE SkipGone(Tail(l))

SweepLoop_Halts(count, ignoresTerm) ==
  /\ cleanedCount' = count
  /\ del' = [del EXCEPT !["sweep"] = IdleDel]
  /\ sweeping' = FALSE
  /\ expiredIds' = <<>>
  /\ collected' = collected
  /\ UNCHANGED <<server, killed, allocatedPorts>>

\* The for loop of cleanupExpired (lines 192-199) from the point where the
\* previous deletePresentation settled: ids that are gone return false and are
\* counted; the next id still in the map starts its deletePresentation; with
\* no id left the run returns cleanedCount.
SweepLoop(count, ignoresTerm) ==
  LET rest == SkipGone(expiredIds)
      cnt == count + (Len(expiredIds) - Len(rest))
  IN /\ cleanedCount' = cnt
     /\ IF rest = <<>>
        THEN /\ del' = [del EXCEPT !["sweep"] = IdleDel]
             /\ sweeping' = FALSE
             /\ expiredIds' = <<>>
             /\ collected' = collected
             /\ UNCHANGED <<server, killed, allocatedPorts>>
        ELSE LET b == DelBegin(Head(rest), ignoresTerm)
             IN /\ del' = [del EXCEPT !["sweep"] = b.del]
                /\ sweeping' = TRUE
                /\ expiredIds' = Tail(rest)
                /\ collected' = collected
                /\ server' = b.server
                /\ killed' = b.killed
                /\ allocatedPorts' = b.alloc

\* Lines 156-167: cleanupProject removed the directory; the id leaves the map;
\* deletePresentation returns true.
DeleteCleanupDone(d) ==
  /\ ~exited
  /\ del[d].pc = "cleanup"
  /\ LET id == del[d].tgt
     IN /\ projectDir' = [projectDir EXCEPT ![id] = FALSE]
        /\ instances' = MapDelete(instances, id)
        /\ IF d = "sweep"
           THEN \E ignoresTerm \in BOOLEAN :
                  /\ SweepLoop(cleanedCount + 1, ignoresTerm)
                  /\ deleted' = deleted
           ELSE /\ del' = [del EXCEPT ![d] = IdleDel]
                /\ deleted' = "true"
                /\ UNCHANGED <<server, killed, allocatedPorts, sweeping,
                               expiredIds, cleanedCount, collected>>
  /\ UNCHANGED <<pmCall, exited, extendRejected, posted, healthCheck, templateValid, install, docker>>
  /\ UNCHANGED <<maxConcurrentPresentations, now, cpc, excludePorts, port,
                 expiresAt, createdAt, outcome>>

\* Lines 157, 168-171: cleanupProject threw; deletePresentation rethrows and
\* line 160 (instances.delete) is not reached. cleanupExpired logs and goes on.
DeleteCleanupFail(d) ==
  /\ ~exited
  /\ del[d].pc = "cleanup"
  /\ IF d = "sweep"
     THEN /\ \E ignoresTerm \in BOOLEAN : SweepLoop(cleanedCount, ignoresTerm)
          /\ deleted' = deleted
     ELSE /\ del' = [del EXCEPT ![d] = IdleDel]
          /\ deleted' = "threw"
          /\ UNCHANGED <<server, killed, allocatedPorts, sweeping, expiredIds,
                         cleanedCount, collected>>
  /\ UNCHANGED <<pmCall, exited, extendRejected, posted, healthCheck, templateValid, install, docker>>
  /\ UNCHANGED <<maxConcurrentPresentations, now, instances, cpc, excludePorts,
                 port, expiresAt, createdAt, projectDir, outcome>>

Expired(id) == expiresAt[id] <= now

\* cleanupExpired, lines 177-194: collect the expired ids in map order and
\* start deleting the first; called by the interval timer and by POST /cleanup.
SweepStart ==
  /\ ~exited
  /\ ~sweeping
  /\ LET ids == SelectSeq(instances, Expired)
     IN /\ IF ids = <<>>
           THEN /\ cleanedCount' = 0
                /\ collected' = {}
                /\ UNCHANGED <<del, sweeping, expiredIds, server, killed,
                               allocatedPorts>>
           ELSE \E ignoresTerm \in BOOLEAN :
                  LET b == DelBegin(Head(ids), ignoresTerm)
                  IN /\ cleanedCount' = 0
                     /\ collected' = SeqRange(ids)
                     /\ del' = [del EXCEPT !["sweep"] = b.del]
                     /\ sweeping' = TRUE
                     /\ expiredIds' = Tail(ids)
                     /\ server' = b.server
                     /\ killed' = b.killed
                     /\ allocatedPorts' = b.alloc
  /\ UNCHANGED <<pmCall, deleted, exited, extendRejected, posted, healthCheck, templateValid, install, docker>>
  /\ UNCHANGED <<maxConcurrentPresentations, now, instances, cpc, excludePorts,
                 port, expiresAt, createdAt, projectDir, outcome>>

\* ------------------------------------------- POST /presentations/:id/extend
Extend_ResetsCreatedAt(id, ttl) ==
  /\ ~exited
  /\ InMap(id)
  /\ expiresAt' = [expiresAt EXCEPT ![id] = now + ttl]
  /\ createdAt' = [createdAt EXCEPT ![id] = now]
  /\ UNCHANGED <<pmCall, deleted, exited, extendRejected, posted, healthCheck, templateValid, install, docker>>
  /\ UNCHANGED <<maxConcurrentPresentations, now, allocatedPorts, instances,
                 cpc, excludePorts, port, server, killed, projectDir, outcome,
                 del, sweeping, expiredIds, cleanedCount, collected>>

Extend(id, ttl) ==
  /\ ~exited
  /\ InMap(id)
  /\ expiresAt' = [expiresAt EXCEPT ![id] = now + ttl]
  /\ UNCHANGED <<pmCall, deleted, exited, extendRejected, posted, healthCheck, templateValid, install, docker>>
  /\ UNCHANGED <<maxConcurrentPresentations, now, allocatedPorts, instances,
                 cpc, excludePorts, port, createdAt, server, killed,
                 projectDir, outcome, del, sweeping, expiredIds, cleanedCount,
                 collected>>

ExtendTtlSchema_NoMax(ttl) == ttl >= 1

\* validateBody with the route's schema, Joi.number().min(60000).max(86400000):
\* one unit of the model's clock is the minimum, MaxTTL units the maximum.
ExtendTtlSchema(ttl) == ttl >= 1 /\ ttl <= MaxTTL

\* The whole route: validateBody answers 400 VALIDATION_ERROR before the handler
\* runs; the handler throws NotFoundError for an id that is not in the map, and
\* otherwise extends.
ExtendRequest(id, ttl) ==
  IF ExtendTtlSchema(ttl) /\ InMap(id)
  THEN Extend(id, ttl)
  ELSE /\ ~exited
       /\ extendRejected' = IF ~ExtendTtlSchema(ttl) THEN "VALIDATION_ERROR"
                                                     ELSE "NOT_FOUND"
       /\ UNCHANGED <<pmCall, deleted, exited, posted, healthCheck, templateValid, install, docker>>
       /\ UNCHANGED <<maxConcurrentPresentations, now, allocatedPorts,
                      instances, cpc, excludePorts, port, expiresAt, createdAt,
                      server, killed, projectDir, outcome, del, sweeping,
                      expiredIds, cleanedCount, collected>>

\* The clock advances.
Tick ==
  /\ ~exited
  /\ now < MaxTime
  /\ now' = now + 1
  /\ UNCHANGED <<pmCall, deleted, exited, extendRejected, posted, healthCheck, templateValid, install, docker>>
  /\ UNCHANGED <<maxConcurrentPresentations, allocatedPorts, instances, cpc,
                 excludePorts, port, expiresAt, createdAt, server, killed,
                 projectDir, outcome, del, sweeping, expiredIds, cleanedCount,
                 collected>>

\* ------------------------------------------------------- SIGTERM / SIGINT
\* The signal's listeners run in the order they were registered. ApiServer.start
\* calls setupProcessErrorHandlers (server.ts line 243) before it registers its
\* own listeners (lines 269-270), so the listener of error-handler.ts runs
\* first and calls process.exit(0): the process is gone before
\* ApiServer.shutdown, and with it PresentationManager.shutdown, can run. The
\* child processes are not signalled by the exit of their parent.
Signal ==
  /\ ~exited
  /\ exited' = TRUE
  /\ UNCHANGED <<pmCall, deleted, extendRejected, posted, healthCheck, templateValid, install, docker>>
  /\ UNCHANGED <<maxConcurrentPresentations, now, allocatedPorts, instances,
                 cpc, excludePorts, port, expiresAt, createdAt, server, killed,
                 projectDir, outcome, del, sweeping, expiredIds, cleanedCount,
                 collected>>

Status_TracksProcess(id) ==
  IF InMap(id) THEN (IF server[id] = "alive" THEN "ready" ELSE "error")
  ELSE "none"

\* instance.status: written once, 'ready', when the record is built (line 78).
Status(id) == IF InMap(id) THEN "ready" ELSE "none"

\* ---------------------------------------------- PortManager called directly
lifecycleOnly == <<maxConcurrentPresentations, now, instances, cpc,
                   excludePorts, port, expiresAt, createdAt, server, killed,
                   projectDir, outcome, del, sweeping, expiredIds,
                   cleanedCount, collected, deleted, exited,
                   extendRejected, posted, healthCheck, templateValid, install, docker>>

\* allocatePort, lines 298-308: snapshot of the allocated set, then the call
\* suspends in getPort.
PMAllocCall(k) ==
  /\ ~exited
  /\ pmCall[k].pc = "idle"
  /\ pmCall' = [pmCall EXCEPT ![k] = [pc |-> "probing", exclude |-> allocatedPorts,
                                      got |-> NoPort]]
  /\ UNCHANGED allocatedPorts
  /\ UNCHANGED lifecycleOnly

\* allocatePort, lines 310-331: getPort handed back p (a port it did not have
\* to exclude), or threw (NoPort); range check, conflict check, add.
PMAllocResume(k, p) ==
  /\ ~exited
  /\ pmCall[k].pc = "probing"
  /\ p \notin pmCall[k].exclude
  /\ IF OutOfRange(p) \/ PortConflict(p)
     THEN /\ pmCall' = [pmCall EXCEPT ![k] = IdleCall]
          /\ UNCHANGED allocatedPorts
     ELSE /\ allocatedPorts' = allocatedPorts \cup {p}
          /\ pmCall' = [pmCall EXCEPT ![k] = [pc |-> "holding", exclude |-> {},
                                              got |-> p]]
  /\ UNCHANGED lifecycleOnly

\* releasePort(p) for any p; whoever was handed p no longer holds it.
PMRelease(p) ==
  /\ ~exited
  /\ allocatedPorts' = ReleasePort(allocatedPorts, p)
  /\ pmCall' = [k \in Callers |->
                  IF pmCall[k].pc = "holding" /\ pmCall[k].got = p
                  THEN IdleCall ELSE pmCall[k]]
  /\ UNCHANGED lifecycleOnly

PortNext ==
  \/ \E k \in Callers : PMAllocCall(k)
  \/ \E k \in Callers, p \in ProbeResults : PMAllocResume(k, p)
  \/ \E p \in ProbeResults : PMRelease(p)

PortSpec == Init /\ [][PortNext]_vars

\* -------------------------------------------------------------- health.ts
\* Math.round((n / d) * 100) for n >= 0, d > 0.
RoundPct(n, d) == (200 * n + d) \div (2 * d)

\* PortManager.getStats of a manager with `total` ports, `allocated` of them
\* allocated.
GetStats(allocated, total) ==
  [total |-> total,
   allocated |-> allocated,
   available |-> total - allocated,
   utilizationPercentage |-> RoundPct(allocated, total)]

\* HealthMonitor.determineOverallStatus, on the reported percentages.
DetermineOverallStatus(memory, disk, ports) ==
  IF memory > 90 THEN "unhealthy"
  ELSE IF disk > 95 THEN "unhealthy"
  ELSE IF ports.utilizationPercentage > 90 THEN "unhealthy"
  ELSE "healthy"

\* HealthMonitor.getHealthStatus: the measurements either throw (then the catch
\* answers unhealthy with zero available ports) or report their percentages.
GetHealthStatus(memory, disk, threw, allocated, total) ==
  IF threw
  THEN [memory |-> memory, disk |-> disk, threw |-> TRUE,
        allocated |-> allocated, total |-> total,
        status |-> "unhealthy", availablePorts |-> 0]
  ELSE LET portStats == GetStats(allocated, total)
       IN [memory |-> memory, disk |-> disk, threw |-> FALSE,
           allocated |-> allocated, total |-> total,
           status |-> DetermineOverallStatus(memory, disk, portStats),
           availablePorts |-> portStats.available]

\* GET /health on a server in the given condition.
HealthRequest(memory, disk, threw, allocated, total) ==
  /\ ~exited
  /\ healthCheck' = GetHealthStatus(memory, disk, threw, allocated, total)
  /\ UNCHANGED <<pmCall, deleted, exited, extendRejected, posted, templateValid, install, docker>>
  /\ UNCHANGED <<maxConcurrentPresentations, now, allocatedPorts, instances,
                 cpc, excludePorts, port, expiresAt, createdAt, server, killed,
                 projectDir, outcome, del, sweeping, expiredIds, cleanedCount,
                 collected>>

HealthNext ==
  \E memory \in MemoryPcts, disk \in DiskPcts, threw \in BOOLEAN,
     total \in PoolSizes :
    \E allocated \in 0..total :
      HealthRequest(memory, disk, threw, allocated, total)

HealthSpec == Init /\ [][HealthNext]_vars

\* ------------------------------------------------------- error-handler.ts
AppError(statusCode, code) ==
  [app |-> TRUE, statusCode |-> statusCode, code |-> code, name |-> "Error",
   body |-> FALSE]

ServiceUnavailableError == AppError(503, "SERVICE_UNAVAILABLE")

InsufficientResourcesError == AppError(507, "INSUFFICIENT_RESOURCES")

\* new Error(message): no statusCode, no code.
PlainError ==
  [app |-> FALSE, statusCode |-> 0, code |-> "none", name |-> "Error",
   body |-> FALSE]

\* An error of fs or child_process, with its errno code.
SystemError(code) ==
  [app |-> FALSE, statusCode |-> 0, code |-> code, name |-> "Error",
   body |-> FALSE]

\* errorHandler: status and code of the response for an error.
ErrorHandler(error) ==
  IF error.app THEN [status |-> error.statusCode, code |-> error.code]
  ELSE IF error.name = "SyntaxError" /\ error.body
    THEN [status |-> 400, code |-> "INVALID_JSON"]
  ELSE IF error.code = "EADDRINUSE" THEN [status |-> 503, code |-> "PORT_IN_USE"]
  ELSE IF error.code = "ENOENT" THEN [status |-> 500, code |-> "FILE_NOT_FOUND"]
  ELSE IF error.code = "ENOSPC"
    THEN [status |-> 507, code |-> "INSUFFICIENT_STORAGE"]
  ELSE [status |-> 500, code |-> "INTERNAL_ERROR"]

\* The errors a createPresentation call may reject with, by outcome: the
\* ceiling check and allocatePort throw a plain Error; startSlidevProcess and
\* waitForServerReady reject with a plain Error or with the spawn error; the
\* scaffold and the rollback cleanup reject with an fs error.
CreateErrors(o) ==
  IF o \in {"ceiling", "noport"} THEN {PlainError}
  ELSE IF o = "startup" THEN {PlainError, SystemError("ENOENT")}
  ELSE IF o \in {"scaffold", "cleanup"}
    THEN {SystemError(c) : c \in {"ENOENT", "ENOSPC", "EACCES"}}
  ELSE {}

\* What the POST route answers for attempt a once createPresentation returned.
PostResponses(a) ==
  IF outcome[a] = "ok" THEN {[status |-> 201, code |-> "none"]}
  ELSE {ErrorHandler(e) : e \in CreateErrors(outcome[a])}

\* ------------------------------------------------------ POST /presentations
\* A middleware that calls next(), a pre-check that lets the request through.
Passed == [status |-> 0, code |-> "next"]

\* generatePPTSchema: content is Joi.string().required().min(1); the other
\* fields of the request are taken to be valid.
GeneratePPTSchema(c) == c.raw >= 1

ValidatePresentationRequest_NoMinimum(c) == Passed

\* validatePresentationRequest: non-empty content whose trimmed length is below
\* 10 is answered 400 CONTENT_TOO_SHORT.
ValidatePresentationRequest(c) ==
  IF c.raw # 0 /\ c.trimmed < 10
  THEN [status |-> 400, code |-> "CONTENT_TOO_SHORT"]
  ELSE Passed

\* The two validation middlewares of the route, in order.
PostValidate(c) ==
  IF ~GeneratePPTSchema(c) THEN [status |-> 400, code |-> "VALIDATION_ERROR"]
  ELSE ValidatePresentationRequest(c)

\* The route's resource pre-check on the health status, lines 43-50.
PreCheck(health) ==
  IF health.status = "unhealthy" THEN ErrorHandler(ServiceUnavailableError)
  ELSE IF health.availablePorts = 0 THEN ErrorHandler(InsufficientResourcesError)
  ELSE Passed

\* The whole route for one request: validation; then, once getHealthStatus has
\* resolved, the pre-check and the synchronous start of createPresentation (its
\* ceiling check, as in CreateStart, for the first call not yet made). A
\* request that is refused uses up no createPresentation call.
PostPresentations(c, memory, disk, threw) ==
  /\ ~exited
  /\ LET idle == {b \in Attempts : cpc[b] = "idle"}
         v == PostValidate(c)
         h == GetHealthStatus(memory, disk, threw, Cardinality(allocatedPorts),
                              EndPort - StartPort + 1)
         r == IF v # Passed THEN v ELSE PreCheck(h)
     IN /\ posted' = [raw |-> c.raw, trimmed |-> c.trimmed,
                      status |-> r.status, code |-> r.code]
        /\ IF r # Passed
           THEN UNCHANGED <<cpc, outcome>>
           ELSE /\ idle # {}
                /\ IF CeilingReached
                   THEN /\ cpc' = [cpc EXCEPT ![MinOf(idle)] = "failed"]
                        /\ outcome' = [outcome EXCEPT ![MinOf(idle)] = "ceiling"]
                   ELSE /\ cpc' = [cpc EXCEPT ![MinOf(idle)] = "scaffold"]
                        /\ outcome' = outcome
  /\ UNCHANGED <<pmCall, deleted, exited, extendRejected, healthCheck, templateValid, install, docker>>
  /\ UNCHANGED <<maxConcurrentPresentations, now, allocatedPorts, instances,
                 excludePorts, port, expiresAt, createdAt, server, killed,
                 projectDir, del, sweeping, expiredIds, cleanedCount, collected>>

\* ------------------------------- ProjectGenerator.installDependenciesWithRetry
\* maxRetries of the call in initializeTemplate (the parameter's default) and
\* of the call in createProject.
DefaultMaxRetries == 3
ProjectMaxRetries == 2

RetryLimits == {ProjectMaxRetries, DefaultMaxRetries}

\* Lines 131-138: the npm strategy of an attempt.
InstallCommand(attempt) ==
  IF attempt = 1 THEN "prefer-offline"
  ELSE IF attempt = 2 THEN "force"
  ELSE "legacy-peer-deps"

allButInstall == <<maxConcurrentPresentations, now, allocatedPorts, instances,
                   cpc, excludePorts, port, expiresAt, createdAt, server,
                   killed, projectDir, outcome, del, sweeping, expiredIds,
                   cleanedCount, collected, pmCall, deleted, exited,
                   extendRejected, posted, healthCheck, templateValid, docker>>

\* Lines 122-150: the call enters the loop with attempt = 1 (1 <= maxRetries),
\* picks the command and suspends in execAsync.
InstallCall(i, maxRetries) ==
  /\ ~exited
  /\ install[i].pc = "idle"
  /\ 1 <= maxRetries
  /\ install' = [install EXCEPT ![i] =
                   [pc |-> "exec", attempt |-> 1, maxRetries |-> maxRetries,
                    commands |-> <<InstallCommand(1)>>]]
  /\ UNCHANGED allButInstall

\* Lines 152-157: npm exited with code 0; the function returns.
InstallExecOk(i) ==
  /\ ~exited
  /\ install[i].pc = "exec"
  /\ install' = [install EXCEPT ![i].pc = "returned"]
  /\ UNCHANGED allButInstall

InstallExecFail_AlwaysRetries(i) ==
  /\ ~exited
  /\ install[i].pc = "exec"
  /\ install' = [install EXCEPT ![i].pc = "backoff"]
  /\ UNCHANGED allButInstall

\* Lines 159-177: execAsync rejected (npm failed, or was killed after the
\* 5 minute timeout): throw after the last attempt, else wait 2 s * attempt.
InstallExecFail(i) ==
  /\ ~exited
  /\ install[i].pc = "exec"
  /\ install' = [install EXCEPT ![i].pc =
                   IF install[i].attempt = install[i].maxRetries
                   THEN "threw" ELSE "backoff"]
  /\ UNCHANGED allButInstall

\* Lines 126, 131-150: the backoff timer fired; attempt++, the loop condition
\* holds (attempt < maxRetries before the increment), next command, execAsync.
InstallRetry(i) ==
  /\ ~exited
  /\ install[i].pc = "backoff"
  /\ LET next == install[i].attempt + 1
     IN IF next <= install[i].maxRetries
        THEN install' = [install EXCEPT ![i].pc = "exec",
                                        ![i].attempt = next,
                                        ![i].commands = Append(@, InstallCommand(next))]
        ELSE install' = [install EXCEPT ![i].pc = "returned", ![i].attempt = next]
  /\ UNCHANGED allButInstall

\* initializeTemplate and createProject calls installing at the same time.
InstallNext ==
  \/ \E i \in Installers, m \in RetryLimits : InstallCall(i, m)
  \/ \E i \in Installers : InstallExecOk(i)
  \/ \E i \in Installers : InstallExecFail(i)
  \/ \E i \in Installers : InstallRetry(i)

InstallSpec == Init /\ [][InstallNext]_vars

\* execAsync settles (its timeout option kills npm after 5 minutes) and the
\* backoff timer fires.
InstallFairSpec ==
  /\ InstallSpec
  /\ \A i \in Installers : WF_vars(InstallExecOk(i) \/ InstallExecFail(i))
  /\ \A i \in Installers : WF_vars(InstallRetry(i))

\* ----------------------------------------------------------- DockerManager
allButDocker == <<maxConcurrentPresentations, now, instances, cpc,
                  excludePorts, port, expiresAt, createdAt, server, killed,
                  projectDir, outcome, del, sweeping, expiredIds, cleanedCount,
                  collected, pmCall, deleted, exited, extendRejected, posted,
                  healthCheck, templateValid, install>>

\* Ports published by a container of ours that is running (-p port:3000).
DockerBoundPorts ==
  {docker[c].port : c \in {k \in DockerCalls : docker[k].container = "running"}}

\* get-port-please as DockerManager's allocatePort call sees it.
DockerGetPort(exclude) ==
  LET cand == PortRange \ (exclude \cup BoundPorts \cup DockerBoundPorts)
  IN IF cand = {} THEN NoPort ELSE MinOf(cand)

\* Lines 65-68: id, projectPath, and allocatePort up to `await getPort`.
DockerCreateCall(c) ==
  /\ ~exited
  /\ docker[c].pc = "idle"
  /\ docker' = [docker EXCEPT ![c].pc = "alloc", ![c].exclude = allocatedPorts]
  /\ UNCHANGED allocatedPorts
  /\ UNCHANGED allButDocker

\* allocatePort resumes. It is awaited before the try block (line 68): when it
\* throws, createPresentation throws with nothing acquired. Otherwise the call
\* suspends in fs.ensureDir (line 74).
DockerAllocResume(c) ==
  /\ ~exited
  /\ docker[c].pc = "alloc"
  /\ LET p == DockerGetPort(docker[c].exclude)
     IN IF OutOfRange(p) \/ PortConflict(p)
        THEN /\ docker' = [docker EXCEPT ![c].pc = "failed", ![c].exclude = {},
                                          ![c].error = "noport",
                                          ![c].threw = TRUE]
             /\ UNCHANGED allocatedPorts
        ELSE /\ allocatedPorts' = allocatedPorts \cup {p}
             /\ docker' = [docker EXCEPT ![c].pc = "files", ![c].exclude = {},
                                          ![c].port = p]
  /\ UNCHANGED allButDocker

\* Lines 74-85: ensureDir, createSlidesFile and createCustomCSS succeeded;
\* startContainer suspends in `docker run`.
DockerFilesDone(c) ==
  /\ ~exited
  /\ docker[c].pc = "files"
  /\ docker' = [docker EXCEPT ![c].pc = "start", ![c].dir = TRUE]
  /\ UNCHANGED allocatedPorts
  /\ UNCHANGED allButDocker

\* Lines 74-82 threw: ensureDir itself (no directory) or a write after it (the
\* directory exists); the catch runs.
DockerFilesFail(c) ==
  /\ ~exited
  /\ docker[c].pc = "files"
  /\ \E made \in BOOLEAN :
       docker' = [docker EXCEPT ![c].pc = "rollback", ![c].dir = made,
                               ![c].error = "files"]
  /\ allocatedPorts' = ReleasePort(allocatedPorts, docker[c].port)
  /\ UNCHANGED allButDocker

\* Lines 85-102: `docker run -d` printed the container id; the record is built
\* with status 'starting' and put in the map; waitForContainer starts polling.
DockerStartOk(c) ==
  /\ ~exited
  /\ docker[c].pc = "start"
  /\ docker' = [docker EXCEPT ![c].pc = "wait", ![c].container = "running",
                               ![c].status = "starting", ![c].inMap = TRUE]
  /\ UNCHANGED allocatedPorts
  /\ UNCHANGED allButDocker

\* startContainer threw (lines 159-162); the catch runs.
DockerStartFail(c) ==
  /\ ~exited
  /\ docker[c].pc = "start"
  /\ docker' = [docker EXCEPT ![c].pc = "rollback", ![c].error = "start"]
  /\ allocatedPorts' = ReleasePort(allocatedPorts, docker[c].port)
  /\ UNCHANGED allButDocker

\* The container's process ends; --rm removes the container.
DockerContainerExit(c) ==
  /\ docker[c].container = "running"
  /\ docker' = [docker EXCEPT ![c].container = "gone"]
  /\ UNCHANGED allocatedPorts
  /\ UNCHANGED allButDocker

\* waitForContainer, lines 173-185: `docker inspect` succeeded (the container
\* exists); status 'running'; createPresentation returns the record.
DockerHealthy(c) ==
  /\ ~exited
  /\ docker[c].pc = "wait"
  /\ docker[c].container = "running"
  /\ docker' = [docker EXCEPT ![c].pc = "ok", ![c].status = "running"]
  /\ UNCHANGED allocatedPorts
  /\ UNCHANGED allButDocker

\* waitForContainer, lines 173, 197-199: 60 s have passed and no inspect has
\* succeeded (the container is gone, or the daemon did not answer); status
\* 'error'; throw; the catch of createPresentation runs.
DockerWaitTimeout(c) ==
  /\ ~exited
  /\ docker[c].pc = "wait"
  /\ docker' = [docker EXCEPT ![c].pc = "rollback", ![c].status = "error",
                               ![c].error = "timeout"]
  /\ allocatedPorts' = ReleasePort(allocatedPorts, docker[c].port)
  /\ UNCHANGED allButDocker

\* Lines 112-118: fs.remove(projectPath) succeeded; the error is rethrown.
DockerRollbackDone(c) ==
  /\ ~exited
  /\ docker[c].pc = "rollback"
  /\ docker' = [docker EXCEPT ![c].pc = "failed", ![c].dir = FALSE,
                               ![c].threw = TRUE]
  /\ UNCHANGED allocatedPorts
  /\ UNCHANGED allButDocker

\* Lines 112-118: fs.remove threw; that is logged; the error is rethrown.
DockerRollbackFail(c) ==
  /\ ~exited
  /\ docker[c].pc = "rollback"
  /\ docker[c].dir
  /\ docker' = [docker EXCEPT ![c].pc = "failed", ![c].threw = TRUE]
  /\ UNCHANGED allocatedPorts
  /\ UNCHANGED allButDocker

\* Concurrent DockerManager.createPresentation calls.
DockerNext ==
  \/ \E c \in DockerCalls : DockerCreateCall(c)
  \/ \E c \in DockerCalls : DockerAllocResume(c)
  \/ \E c \in DockerCalls : DockerFilesDone(c)
  \/ \E c \in DockerCalls : DockerFilesFail(c)
  \/ \E c \in DockerCalls : DockerStartOk(c)
  \/ \E c \in DockerCalls : DockerStartFail(c)
  \/ \E c \in DockerCalls : DockerContainerExit(c)
  \/ \E c \in DockerCalls : DockerHealthy(c)
  \/ \E c \in DockerCalls : DockerWaitTimeout(c)
  \/ \E c \in DockerCalls : DockerRollbackDone(c)
  \/ \E c \in DockerCalls : DockerRollbackFail(c)

DockerSpec == Init /\ [][DockerNext]_vars

\* ------------------------------------------------------------ the server
Creates ==
  \/ \E a \in Attempts : CreateStart(a)
  \/ \E a \in Attempts : ScaffoldDone(a)
  \/ \E a \in Attempts : ScaffoldFail(a)
  \/ \E a \in Attempts : AllocResume(a)
  \/ \E a \in Attempts : StartReady(a)
  \/ \E a \in Attempts : StartReject(a)
  \/ \E a \in Attempts : StartExitZero(a)
  \/ \E a \in Attempts : StartTimeout(a)
  \/ \E a \in Attempts : WaitReady(a)
  \/ \E a \in Attempts : WaitFail(a)
  \/ \E a \in Attempts : RollbackCleanupDone(a)
  \/ \E a \in Attempts : RollbackCleanupFail(a)
  \/ \E a \in Attempts : ProcExit(a)

Teardowns ==
  \/ \E id \in Attempts : DeleteRequest(id)
  \/ \E d \in DelCtx : DeleteGrace(d)
  \/ \E d \in DelCtx : DeleteCleanupDone(d)
  \/ \E d \in DelCtx : DeleteCleanupFail(d)
  \/ SweepStart
  \/ \E id \in Attempts, ttl \in TTLs : Extend(id, ttl)
  \/ Tick

\* Concurrent POST /presentations requests alone.
CreateNext == Creates

CreateSpec == Init /\ [][CreateNext]_vars

\* The whole server: creates, DELETE requests, sweeps, extends, the clock.
Next == Creates \/ Teardowns

Spec == Init /\ [][Next]_vars

\* Clients that POST one presentation at a time (each create has returned
\* before the next is sent) and send DELETE requests, also while a create is
\* in flight.
SerialCreateStart(a) ==
  /\ \A b \in Attempts : cpc[b] \in {"idle", "ok", "failed"}
  /\ CreateStart(a)

DeleteNext ==
  \/ \E a \in Attempts : SerialCreateStart(a)
  \/ \E a \in Attempts : ScaffoldDone(a)
  \/ \E a \in Attempts : ScaffoldFail(a)
  \/ \E a \in Attempts : AllocResume(a)
  \/ \E a \in Attempts : StartReady(a)
  \/ \E a \in Attempts : StartReject(a)
  \/ \E a \in Attempts : StartExitZero(a)
  \/ \E a \in Attempts : StartTimeout(a)
  \/ \E a \in Attempts : WaitReady(a)
  \/ \E a \in Attempts : WaitFail(a)
  \/ \E a \in Attempts : RollbackCleanupDone(a)
  \/ \E a \in Attempts : RollbackCleanupFail(a)
  \/ \E a \in Attempts : ProcExit(a)
  \/ \E id \in Attempts : DeleteRequest(id)
  \/ DeleteGrace("req")
  \/ DeleteCleanupDone("req")
  \/ DeleteCleanupFail("req")

DeleteSpec == Init /\ [][DeleteNext]_vars

\* Clients that POST one presentation at a time, while the clock advances and
\* cleanupExpired runs (timer or POST /cleanup).
SweepNext ==
  \/ \E a \in Attempts : SerialCreateStart(a)
  \/ \E a \in Attempts : ScaffoldDone(a)
  \/ \E a \in Attempts : ScaffoldFail(a)
  \/ \E a \in Attempts : AllocResume(a)
  \/ \E a \in Attempts : StartReady(a)
  \/ \E a \in Attempts : StartReject(a)
  \/ \E a \in Attempts : StartExitZero(a)
  \/ \E a \in Attempts : StartTimeout(a)
  \/ \E a \in Attempts : WaitReady(a)
  \/ \E a \in Attempts : WaitFail(a)
  \/ \E a \in Attempts : RollbackCleanupDone(a)
  \/ \E a \in Attempts : RollbackCleanupFail(a)
  \/ \E a \in Attempts : ProcExit(a)
  \/ SweepStart
  \/ DeleteGrace("sweep")
  \/ DeleteCleanupDone("sweep")
  \/ DeleteCleanupFail("sweep")
  \/ Tick

SweepSpec == Init /\ [][SweepNext]_vars

\* Clients that POST one presentation at a time and extend presentations,
\* while the clock advances.
ExtendNext ==
  \/ \E a \in Attempts : SerialCreateStart(a)
  \/ \E a \in Attempts : ScaffoldDone(a)
  \/ \E a \in Attempts : ScaffoldFail(a)
  \/ \E a \in Attempts : AllocResume(a)
  \/ \E a \in Attempts : StartReady(a)
  \/ \E a \in Attempts : StartReject(a)
  \/ \E a \in Attempts : StartExitZero(a)
  \/ \E a \in Attempts : StartTimeout(a)
  \/ \E a \in Attempts : WaitReady(a)
  \/ \E a \in Attempts : WaitFail(a)
  \/ \E a \in Attempts : RollbackCleanupDone(a)
  \/ \E a \in Attempts : RollbackCleanupFail(a)
  \/ \E a \in Attempts : ProcExit(a)
  \/ \E id \in Attempts, ttl \in TtlInputs : ExtendRequest(id, ttl)
  \/ Tick

ExtendSpec == Init /\ [][ExtendNext]_vars

\* Clients that POST one request at a time through the route: a request is
\* sent when no createPresentation call is in flight.
SerialPost(c, memory, disk, threw) ==
  /\ \A b \in Attempts : cpc[b] \in {"idle", "ok", "failed"}
  /\ PostPresentations(c, memory, disk, threw)

RouteNext ==
  \/ \E c \in Contents, memory \in MemoryPcts, disk \in DiskPcts,
        threw \in BOOLEAN :
       SerialPost(c, memory, disk, threw)
  \/ \E a \in Attempts : ScaffoldDone(a)
  \/ \E a \in Attempts : ScaffoldFail(a)
  \/ \E a \in Attempts : AllocResume(a)
  \/ \E a \in Attempts : StartReady(a)
  \/ \E a \in Attempts : StartReject(a)
  \/ \E a \in Attempts : StartExitZero(a)
  \/ \E a \in Attempts : StartTimeout(a)
  \/ \E a \in Attempts : WaitReady(a)
  \/ \E a \in Attempts : WaitFail(a)
  \/ \E a \in Attempts : RollbackCleanupDone(a)
  \/ \E a \in Attempts : RollbackCleanupFail(a)
  \/ \E a \in Attempts : ProcExit(a)

RouteSpec == Init /\ [][RouteNext]_vars

\* Concurrent creates on a server whose initializeTemplate either found or
\* built a valid template, or failed (catch, lines 75-79: nothing installed
\* under _template, templatePath undefined).
TemplateInit == Constructed /\ templateValid \in BOOLEAN

TemplateSpec == TemplateInit /\ [][CreateNext]_vars

\* Concurrent creates, and a SIGTERM or SIGINT at any moment.
ShutdownNext == Creates \/ Signal

ShutdownSpec == Init /\ [][ShutdownNext]_vars

\* The scheduling Node guarantees: a timer that is due fires (the cleanup
\* interval, the 1 s grace timer) and a pending fs.remove settles, one way or
\* the other.
FairSpec ==
  /\ Spec
  /\ WF_vars(SweepStart)
  /\ \A d \in DelCtx : WF_vars(DeleteGrace(d))
  /\ \A d \in DelCtx : WF_vars(DeleteCleanupDone(d) \/ DeleteCleanupFail(d))

\* Clients that POST one presentation at a time, and what Node guarantees to
\* each createPresentation call: the fs operations of
\* the scaffold and of the rollback settle, getPort settles, the 180 s timer of
\* startSlidevProcess fires unless the promise has settled, and the readiness
\* poll ends, with a response or after its 60th attempt.
SerialCreateNext ==
  \/ \E a \in Attempts : SerialCreateStart(a)
  \/ \E a \in Attempts : ScaffoldDone(a)
  \/ \E a \in Attempts : ScaffoldFail(a)
  \/ \E a \in Attempts : AllocResume(a)
  \/ \E a \in Attempts : StartReady(a)
  \/ \E a \in Attempts : StartReject(a)
  \/ \E a \in Attempts : StartExitZero(a)
  \/ \E a \in Attempts : StartTimeout(a)
  \/ \E a \in Attempts : WaitReady(a)
  \/ \E a \in Attempts : WaitFail(a)
  \/ \E a \in Attempts : RollbackCleanupDone(a)
  \/ \E a \in Attempts : RollbackCleanupFail(a)
  \/ \E a \in Attempts : ProcExit(a)

CreateFairSpec ==
  /\ Init /\ [][SerialCreateNext]_vars
  /\ \A a \in Attempts : WF_vars(ScaffoldDone(a) \/ ScaffoldFail(a))
  /\ \A a \in Attempts : WF_vars(AllocResume(a))
  /\ \A a \in Attempts : WF_vars(StartTimeout(a))
  /\ \A a \in Attempts : WF_vars(WaitReady(a) \/ WaitFail(a))
  /\ \A a \in Attempts : WF_vars(RollbackCleanupDone(a) \/ RollbackCleanupFail(a))

\* ------------------------------------------------------------------ claims
InMapOf(m, id) == id \in SeqRange(m)

Started == {a \in Attempts : cpc[a] # "idle"}

\* The attempt holds a port it was handed and has not released.
Live(a) == cpc[a] \in {"spawn", "wait", "ok"}

\* In this step createPresentation of attempt a returns an error.
CreateFails(a) == cpc[a] # "failed" /\ cpc'[a] = "failed"

\* In this step a cleanupExpired run takes a step / returns.
SweepStep == del'["sweep"] # del["sweep"] \/ sweeping' # sweeping

SweepReturns == sweeping /\ ~sweeping'

\* C1: under every interleaving of allocatePort and releasePort calls, every
\* port handed out lies in [startPort, endPort], no port is held by two callers
\* at once, and the allocated set is a subset of the range.
C1_ExclusivePortsInRange ==
  /\ allocatedPorts \subseteq PortRange
  /\ \A k \in Callers :
       pmCall[k].pc = "holding" =>
         pmCall[k].got \in PortRange /\ pmCall[k].got \in allocatedPorts
  /\ \A k1, k2 \in Callers :
       (k1 # k2 /\ pmCall[k1].pc = "holding" /\ pmCall[k2].pc = "holding")
         => pmCall[k1].got # pmCall[k2].got

\* One caller holds a port while a concurrent call, whose snapshot was taken
\* before that port was added, is still waiting for getPort.
C1_Witness ==
  \E k1, k2 \in Callers :
    /\ pmCall[k1].pc = "holding"
    /\ pmCall[k2].pc = "probing"
    /\ pmCall[k1].got \notin pmCall[k2].exclude

\* C2: in every reachable state no two instances in the instance map have the
\* same port.
C2_DistinctInstancePorts ==
  \A i, j \in SeqRange(instances) : i # j => port[i] # port[j]

\* C3: the number of instances in the map never exceeds
\* maxConcurrentPresentations.
C3_CeilingNeverExceeded == Len(instances) <= maxConcurrentPresentations

\* C4: when createPresentation returns an error, the port of the attempt is
\* not in the allocated set (unless a later attempt was handed it since), the
\* attempt's id is not in the map and its directory does not exist. Attempts
\* whose fs.remove itself failed are left out: the statement checked is the
\* claim for the attempts whose every removal succeeded.
C4_FailedCreateLeavesNothing ==
  [][\A a \in Attempts :
       (/\ CreateFails(a)
        /\ outcome'[a] # "cleanup"
        /\ ~(outcome'[a] = "scaffold" /\ projectDir'[a]))
       => /\ port[a] # NoPort =>
               \/ port[a] \notin allocatedPorts'
               \/ \E b \in Attempts \ {a} : Live(b)' /\ port'[b] = port[a]
          /\ ~InMapOf(instances', a)
          /\ ~projectDir'[a]]_vars

C6_ConcurrentCreatesUpToRange ==
  NumPorts < maxConcurrentPresentations =>
    /\ Cardinality(Started) <= NumPorts =>
         \A a \in Attempts : outcome[a] # "noport"
    /\ \A a, b \in Attempts : (a # b /\ Live(a) /\ Live(b)) => port[a] # port[b]
    /\ Cardinality({a \in Attempts : Live(a)}) <= NumPorts

\* C7: when a cleanupExpired run returns, every instance it found expired has
\* left the map; and no step of the run touches any other instance (its map
\* entry, its process, its directory, whether its port is allocated).
C7_SweepRemovesExactlyExpired ==
  [][/\ SweepReturns => \A id \in collected : ~InMapOf(instances', id)
     /\ SweepStep =>
          \A id \in Attempts \ collected' :
            /\ InMapOf(instances', id) = InMap(id)
            /\ server'[id] = server[id]
            /\ killed'[id] = killed[id]
            /\ projectDir'[id] = projectDir[id]
            /\ (port[id] \in allocatedPorts') = (port[id] \in allocatedPorts)]_vars

\* C8: an instance in the map whose expiresAt has passed eventually leaves the
\* map (or is extended), given that the sweep timer keeps firing.
C8_ExpiredEventuallyRemoved ==
  \A id \in Attempts :
    (InMap(id) /\ Expired(id)) ~> (~InMap(id) \/ ~Expired(id))

C10_DeletedProcessNotAlive ==
  [][\A id \in Attempts :
       (InMap(id) /\ ~InMapOf(instances', id)) => server'[id] # "alive"]_vars

\* C11: no instance stays registered as 'ready' once its child process has
\* exited on its own (an exit that no kill of ours caused).
C11_NoReadyInstanceAfterExit ==
  \A id \in Attempts :
    (InMap(id) /\ Status(id) = "ready")
      => ~(server[id] = "dead" /\ ~killed[id])

\* C12: an instance enters the map with expiresAt = createdAt + ttl for one of
\* the ttl values a request can carry.
C12_ExpiresAtIsCreatedAtPlusTtl ==
  [][\A id \in Attempts :
       (~InMap(id) /\ InMapOf(instances', id))
         => \E ttl \in TTLs : expiresAt'[id] = createdAt'[id] + ttl]_vars

\* C13: once the server process has exited on SIGTERM or SIGINT, every
\* registered instance has been torn down: its process is not alive, its port
\* is not allocated, its directory is gone.
C13_ExitOnlyAfterTeardown ==
  exited =>
    \A id \in Attempts :
      InMap(id) =>
        /\ server[id] # "alive"
        /\ port[id] \notin allocatedPorts
        /\ ~projectDir[id]

\* C14: a cleanupExpired run returns only when no collected id is left to
\* delete, and when it returns every instance it collected has either left
\* the map or had its deletion attempted (its process signalled, or already
\* gone): a deletion that failed did not stop the run.
C14_SweepGoesOnAfterFailure ==
  [][SweepReturns =>
       /\ SkipGone(expiredIds) = <<>>
       /\ \A id \in collected :
            InMapOf(instances', id) => (killed'[id] \/ server'[id] # "alive")]_vars

\* The run is deleting j after the deletion of i, collected by the same run,
\* failed: i is still in the map, signalled, with its directory.
C14_Witness ==
  \E i, j \in collected :
    /\ i # j
    /\ sweeping
    /\ del["sweep"].tgt = j
    /\ i \notin SeqRange(expiredIds)
    /\ InMap(i)
    /\ killed[i]
    /\ projectDir[i]

\* C15: a cleanupExpired run that starts after another has returned finds
\* expired none of the instances that the earlier run had found expired (with
\* no extend in between, such an instance is no new expiration): run right
\* after the first, it collects nothing, returns 0 and changes nothing.
C15_SecondSweepCollectsNothingOld ==
  [][(~sweeping /\ sweeping') => collected' \cap collected = {}]_vars

\* C16: while a cleanupExpired run is in progress, its cleanedCount grows in a
\* step by exactly the number of instances that step of the run removes from
\* the map; so the count it returns is the number of instances it removed.
C16_CountIsWhatTheRunRemoved ==
  [][(sweeping /\ SweepStep) =>
       cleanedCount' = cleanedCount + (Len(instances) - Len(instances'))]_vars

\* C17: when the 180 s startup timer fires (the process is sent SIGKILL while
\* the call is still in startSlidevProcess), createPresentation goes to its
\* rollback; and an attempt in rollback or failed stays there, returns no
\* success, and its id is never in the map.
C17_TimedOutAttemptNeverRegistered ==
  [][\A a \in Attempts :
       /\ (cpc[a] = "spawn" /\ ~killed[a] /\ killed'[a]) => cpc'[a] = "rollback"
       /\ cpc[a] \in {"rollback", "failed"} =>
            /\ cpc'[a] \in {"rollback", "failed"}
            /\ outcome'[a] \notin {"none", "ok"} \/ cpc'[a] = "rollback"
            /\ ~InMap(a)
            /\ ~InMapOf(instances', a)]_vars

\* An attempt whose process was killed has returned its startup error and is
\* not in the map, while another presentation is.
C17_Witness ==
  \E a, b \in Attempts :
    /\ cpc[a] = "failed"
    /\ outcome[a] = "startup"
    /\ killed[a]
    /\ ~InMap(a)
    /\ InMap(b)

\* C18: whenever createPresentation returns from its rollback, the error it
\* throws is the original startup error, also when the rollback itself failed.
C18_RollbackKeepsOriginalError ==
  [][\A a \in Attempts :
       (cpc[a] = "rollback" /\ cpc'[a] = "failed") => outcome'[a] = "startup"]_vars

\* C19: a DELETE whose deletePresentation returns false has returned at once
\* and changed nothing (map, allocated ports, processes, directories, the
\* other calls); and deletePresentation starts its work only for an id that
\* is in the map.
C19_UnknownIdDeleteIsNoOp ==
  [][/\ (deleted' = "false" /\ deleted # "false") =>
          /\ del'["req"] = IdleDel
          /\ UNCHANGED <<instances, allocatedPorts, server, killed, projectDir,
                         port, expiresAt, createdAt, cpc, outcome, del>>
     /\ (del["req"].pc = "idle" /\ del'["req"].pc # "idle") =>
          InMap(del'["req"].tgt)]_vars

\* deletePresentation of an unknown id has returned false while an instance
\* is registered with its port allocated, its process alive and its directory.
C19_Witness ==
  /\ deleted = "false"
  /\ del["req"] = IdleDel
  /\ \E id \in Attempts :
       /\ InMap(id)
       /\ port[id] \in allocatedPorts
       /\ server[id] = "alive"
       /\ projectDir[id]

\* C20: a step that changes the expiresAt of a registered instance sets it to
\* (now + ttl) for a ttl the route accepts and changes nothing else: not the
\* instance's createdAt, port or place in the map, no other instance's
\* expiresAt, no port, process or directory.
C20_ExtendChangesOnlyExpiresAt ==
  [][\A id \in Attempts :
       (InMap(id) /\ expiresAt'[id] # expiresAt[id]) =>
         /\ \E ttl \in TTLs : expiresAt'[id] = now + ttl
         /\ \A o \in Attempts \ {id} : expiresAt'[o] = expiresAt[o]
         /\ UNCHANGED <<createdAt, port, instances, allocatedPorts, server,
                        killed, projectDir, cpc, outcome, now>>]_vars

\* A registered instance whose expiresAt is no longer the one it was created
\* with: it was extended after the clock had advanced.
C20_Witness ==
  \E id \in Attempts :
    /\ InMap(id)
    /\ createdAt[id] = 0
    /\ expiresAt[id] > MaxTTL

\* C21: an extend request whose ttl lies outside the accepted range, or whose
\* id is not registered, is answered with a validation error or not-found, and
\* the expiresAt of every instance stays as it was.
C21_RejectedExtendKeepsExpiresAt ==
  [][\A ttl \in TtlInputs, id \in Attempts :
       (ttl \notin TTLs \/ ~InMap(id)) =>
          \/ /\ extendRejected' = (IF ttl \notin TTLs THEN "VALIDATION_ERROR"
                                                       ELSE "NOT_FOUND")
             /\ expiresAt' = expiresAt
          \/ ~ExtendRequest(id, ttl)]_vars

\* A ttl outside the range was refused while a presentation was registered.
C21_Witness == extendRejected = "VALIDATION_ERROR" /\ instances # <<>>

\* C22: releasePort(p) of a port that is not allocated changes nothing, so a
\* second release of the same port is harmless; releasePort(p) of an allocated
\* port takes exactly p out of the set, and from then on an allocatePort call
\* that probes p and had not excluded it is handed p.
C22_ReleaseIsIdempotentAndFrees ==
  /\ [][\A p \in ProbeResults :
          PMRelease(p) =>
            /\ p \notin allocatedPorts => allocatedPorts' = allocatedPorts
            /\ p \in allocatedPorts => allocatedPorts' = allocatedPorts \ {p}]_vars
  /\ [](\A k \in Callers, p \in PortRange :
          (pmCall[k].pc = "probing" /\ p \notin pmCall[k].exclude
             /\ p \notin allocatedPorts)
            => ENABLED (PMAllocResume(k, p) /\ pmCall'[k].got = p))

\* A port that was allocated when a caller took its snapshot has been released
\* since, and a second caller, which does not exclude it, is about to probe.
C22_Witness ==
  \E k \in Callers, j \in Callers, p \in PortRange :
    /\ pmCall[k].pc = "probing"
    /\ p \in pmCall[k].exclude
    /\ p \notin allocatedPorts
    /\ pmCall[j].pc = "probing"
    /\ p \notin pmCall[j].exclude

\* C23: an allocatePort call that resumes while every port of the range is
\* allocated fails, and an allocatePort call that fails leaves the allocated
\* set as it was.
C23_ExhaustedAllocateFailsCleanly ==
  [][\A k \in Callers, p \in ProbeResults :
       PMAllocResume(k, p) =>
         /\ allocatedPorts = PortRange => pmCall'[k] = IdleCall
         /\ pmCall'[k] = IdleCall => allocatedPorts' = allocatedPorts]_vars

\* Every port is allocated and a call made in that state is in flight.
C23_Witness ==
  /\ allocatedPorts = PortRange
  /\ \E k \in Callers :
       pmCall[k].pc = "probing" /\ pmCall[k].exclude = PortRange

\* C24: a create that is refused because the concurrency ceiling is reached or
\* because no port is available is answered with status 429, 503 or 507,
\* never with a 500.
C24_CapacityRefusalIsNotA500 ==
  \A a \in Attempts :
    outcome[a] \in {"ceiling", "noport"} =>
      \A r \in PostResponses(a) : r.status \in {429, 503, 507}

C26_UnhealthyExactlyAboveThresholds ==
  (healthCheck.status # "none" /\ ~healthCheck.threw) =>
    /\ healthCheck.status \in {"healthy", "unhealthy"}
    /\ healthCheck.status = "unhealthy" <=>
         \/ healthCheck.memory > 90
         \/ healthCheck.disk > 95
         \/ 100 * healthCheck.allocated > 90 * healthCheck.total

\* C29: a POST /presentations that passes validation while every port of the
\* pool is allocated is answered 507 INSUFFICIENT_RESOURCES.
C29_NoPortAnswers507 ==
  [][(/\ posted' # posted
      /\ posted'.code \notin {"VALIDATION_ERROR", "CONTENT_TOO_SHORT"}
      /\ allocatedPorts = PortRange)
       => posted'.status = 507 /\ posted'.code = "INSUFFICIENT_RESOURCES"]_vars

\* C27: when building the shared template failed, createPresentation calls do
\* not fail for it: none fails at the start of its Slidev process.
C27_CreatesSucceedWithoutTemplate ==
  ~templateValid => \A a \in Attempts : outcome[a] # "startup"

C30_StagesAreSequential ==
  /\ [](\A a \in Attempts :
          /\ cpc[a] \in {"idle", "scaffold", "alloc"} =>
                port[a] = NoPort /\ server[a] = "none" /\ ~InMap(a)
          /\ cpc[a] \in {"spawn", "wait"} => ~InMap(a))
  /\ [][\A a \in Attempts :
          /\ (cpc[a] # "alloc" /\ cpc'[a] = "alloc") =>
                cpc[a] = "scaffold" /\ projectDir'[a]
          /\ (server[a] = "none" /\ server'[a] # "none") =>
                /\ cpc[a] = "alloc"
                /\ projectDir[a]
                /\ port'[a] \in PortRange
                /\ port'[a] \in allocatedPorts'
          /\ (~InMap(a) /\ InMapOf(instances', a)) =>
                /\ cpc[a] = "wait"
                /\ server[a] = "alive"
                /\ port[a] \in PortRange]_vars

\* One call has gone through every stage and is registered while the next,
\* its scaffold done, is waiting for its port.
C30_Witness ==
  \E a, b \in Attempts :
    /\ InMap(a)
    /\ projectDir[a]
    /\ port[a] \in allocatedPorts
    /\ server[a] = "alive"
    /\ cpc[b] = "alloc"
    /\ projectDir[b]
    /\ port[b] = NoPort

\* ------------------------------------------------------------------- C31
\* An attempt whose process has been spawned and has not yet been found ready.
Suspended(a) == cpc[a] \in {"spawn", "wait"}

\* C31: concurrent creates do not block one another. While one
\* createPresentation is suspended waiting for its process to become ready,
\* every step of another call is open to it: the next call may enter, a
\* scaffolding call may return from the scaffold, a call in allocatePort may
\* resume and, when its snapshot is current and a port of the range is free,
\* gets that port, and a call whose own server answers may register.
C31_CreatesDoNotBlockOneAnother ==
  \A a, b \in Attempts :
    (a # b /\ Suspended(a) /\ ~exited) =>
      /\ (cpc[b] = "idle" /\ \A c \in Attempts : c < b => cpc[c] # "idle")
            => ENABLED CreateStart(b)
      /\ cpc[b] = "scaffold" => ENABLED ScaffoldDone(b)
      /\ cpc[b] = "alloc" => ENABLED AllocResume(b)
      /\ (cpc[b] = "alloc" /\ excludePorts[b] = allocatedPorts
             /\ PortRange \ (allocatedPorts \cup BoundPorts) # {})
            => ENABLED (AllocResume(b) /\ cpc'[b] = "spawn")
      /\ (cpc[b] = "spawn" /\ server[b] = "alive" /\ templateValid)
            => ENABLED StartReady(b)
      /\ (cpc[b] = "wait" /\ server[b] = "alive") => ENABLED WaitReady(b)

\* The later call has run to completion, on a port of its own, while the
\* earlier one is still waiting for its process.
C31_Witness ==
  \E a, b \in Attempts :
    /\ a < b
    /\ Suspended(a)
    /\ cpc[b] = "ok" /\ outcome[b] = "ok" /\ InMap(b)
    /\ port[b] # port[a]
    /\ {port[a], port[b]} \subseteq allocatedPorts

\* ------------------------------------------------------------------- C34
\* C34: in every reachable state the port of every instance in the registry
\* is in the allocated set of the PortManager.
C34_RegisteredPortIsAllocated ==
  \A id \in Attempts : InMap(id) => port[id] \in allocatedPorts

\* ------------------------------------------------------------------- C35
\* In this step the deletePresentation call of context d passes its
\* releasePort line.
Releases(d) == del[d].pc # "cleanup" /\ del'[d].pc = "cleanup"

\* C35: when two deletePresentation calls overlap on one id, the port is
\* released once: the call that reaches releasePort second, the other having
\* passed it, takes nothing out of the allocated set, so a port handed to
\* another presentation in between stays allocated.
C35_OverlappingDeletesReleaseOnce ==
  [][\A d, e \in DelCtx :
       (d # e /\ Releases(d) /\ del[e].pc = "cleanup"
          /\ del[e].tgt = del'[d].tgt)
         => allocatedPorts' = allocatedPorts]_vars

\* ------------------------------------------------------------------- C36
\* In this step cleanupExpired starts the teardown of id.
SweepBegins(id) ==
  /\ del'["sweep"].pc # "idle" /\ del'["sweep"].tgt = id
  /\ del["sweep"].pc = "idle" \/ del["sweep"].tgt # id

\* C36: cleanupExpired starts the teardown of an instance only if its
\* expiresAt is not in the future at that moment, also when its TTL was
\* extended after the run collected its list.
C36_SweepSparesExtendedInstance ==
  [][\A id \in Attempts : SweepBegins(id) => expiresAt[id] <= now]_vars

\* ------------------------------------------------------------------- C38
\* C38: a step that changes the expiresAt of a registered instance never
\* moves it earlier.
C38_ExtendNeverShortens ==
  [][\A id \in Attempts : InMap(id) => expiresAt'[id] >= expiresAt[id]]_vars

\* ------------------------------------------------------------------- C37
\* No createPresentation, deletePresentation or cleanupExpired call is in
\* flight.
Quiescent ==
  /\ \A a \in Attempts : cpc[a] \in {"idle", "ok", "failed"}
  /\ \A d \in DelCtx : del[d].pc = "idle"
  /\ ~sweeping

\* C37: no port leaks. Whenever no create or delete is in flight, every port
\* in the allocated set is the port of an instance in the registry.
C37_NoPortLeakWhenQuiescent ==
  Quiescent =>
    \A p \in allocatedPorts : \E id \in Attempts : InMap(id) /\ port[id] = p

\* Nothing is in flight, one create has failed after it had been handed a
\* port, and a presentation is registered on its allocated port.
C37_Witness ==
  /\ Quiescent
  /\ \E a \in Attempts :
       cpc[a] = "failed" /\ port[a] # NoPort /\ outcome[a] \in {"startup", "cleanup"}
  /\ \E id \in Attempts : InMap(id) /\ port[id] \in allocatedPorts

\* ------------------------------------------------------------------- C39
\* What getPresentation(id) and getAllPresentations() show of an attempt: the
\* status of its record, or nothing.
Visible(id) == InMap(id)

\* C39: every instance visible through getPresentation or getAllPresentations
\* has status 'ready' and belongs to a createPresentation call that returned
\* it; an attempt that is still provisioning, is rolling back or has failed is
\* not in the registry.
C39_VisibleInstancesAreReady ==
  \A id \in Attempts :
    /\ Visible(id) => (Status(id) = "ready" /\ cpc[id] = "ok" /\ outcome[id] = "ok")
    /\ cpc[id] \in {"idle", "scaffold", "alloc", "spawn", "wait", "rollback", "failed"}
          => (~Visible(id) /\ Status(id) = "none")

\* One attempt failed during startup and is not visible; the other is
\* visible, and its process has exited since it was registered.
C39_Witness ==
  \E id, b \in Attempts :
    /\ Visible(id) /\ server[id] = "dead"
    /\ cpc[b] = "failed" /\ outcome[b] = "startup" /\ ~Visible(b)

\* ------------------------------------------------------------------- C33
RECURSIVE Strategies(_)
\* The strategies of attempts 1..n, in order.
Strategies(n) == IF n = 0 THEN <<>> ELSE Append(Strategies(n - 1), InstallCommand(n))

\* C33: installDependenciesWithRetry makes at most maxRetries install
\* attempts, with the strategies prefer-offline, force, legacy-peer-deps in
\* that order; it runs nothing after the first attempt that succeeds; it
\* throws only after attempt number maxRetries has failed, and does throw
\* then; and every call returns or throws.
C33_InstallRetriesAreBoundedAndOrdered ==
  /\ [](\A i \in Installers :
          /\ install[i].attempt <= install[i].maxRetries
          /\ Len(install[i].commands) = install[i].attempt
          /\ install[i].commands = Strategies(install[i].attempt)
          /\ \A k \in 1..Len(install[i].commands) :
               install[i].commands[k] =
                 <<"prefer-offline", "force", "legacy-peer-deps">>[k]
          /\ install[i].pc = "threw" => install[i].attempt = install[i].maxRetries
          /\ install[i].pc = "backoff" => install[i].attempt < install[i].maxRetries)
  /\ [][\A i \in Installers :
          install[i].pc \in {"returned", "threw"} => install'[i] = install[i]]_vars
  /\ \A i \in Installers :
       (install[i].pc = "exec") ~> (install[i].pc \in {"returned", "threw"})

\* The template's installation has thrown after its third attempt, while the
\* installation of a project has returned after its second.
C33_Witness ==
  \E i, j \in Installers :
    /\ install[i].pc = "threw" /\ install[i].maxRetries = DefaultMaxRetries
    /\ install[i].commands = <<"prefer-offline", "force", "legacy-peer-deps">>
    /\ install[j].pc = "returned" /\ install[j].maxRetries = ProjectMaxRetries
    /\ install[j].commands = <<"prefer-offline", "force">>

\* ------------------------------------------------------------------- C32
\* C32: a DockerManager.createPresentation call that has thrown, at whatever
\* stage, has left nothing behind: its port is not allocated (unless a later
\* call has been handed it since), its project directory is removed, its
\* container is not running, and the containers map has no entry for its id.
C32_FailedDockerCreateLeavesNothing ==
  \A c \in DockerCalls :
    docker[c].pc = "failed" =>
      /\ \/ docker[c].port \notin allocatedPorts
         \/ \E o \in DockerCalls \ {c} :
              docker[o].port = docker[c].port
                /\ docker[o].pc \in {"files", "start", "wait", "ok"}
      /\ ~docker[c].dir
      /\ docker[c].container # "running"
      /\ ~docker[c].inMap

====
